---- MODULE Spec2Model ----
(***************************************************************************)
(* NetworkAnimation (src/script.js, lines 6-162): the canvas particle      *)
(* field, its per-frame callback and its resize / mousemove / mouseout     *)
(* handlers.                                                               *)
(*                                                                         *)
(* Numbers.  JavaScript numbers are modelled in fixed point: every length  *)
(* (positions, speeds, sizes, distances between points) is an integer      *)
(* count of grid units, and a value the code computes is rounded to the    *)
(* nearest grid unit where the code's double would be rounded to the       *)
(* nearest double.  Math.sqrt is kept to 1/SqrtPrec of a grid unit.        *)
(* Opacities are kept in thousandths (particle.opacity) and, after         *)
(* toFixed(2), in hundredths (stroke alpha).                               *)
(*                                                                         *)
(* Settings.  The code reads its configuration only through this.settings  *)
(* and this.mouse.radius, which are state here.  Their lengths are scaled  *)
(* down to a grid that can be enumerated (FieldSettings, FrameSettings);   *)
(* the code's structure is kept as it is.                                  *)
(*                                                                         *)
(* Two specifications.  Spec runs the constructor and then any             *)
(* interleaving of frames, resizes and pointer events, with no bound on    *)
(* their number, on a field of one particle (updateParticle treats every   *)
(* particle alone; two particles on the same grid exceed what can be       *)
(* enumerated).  SpecFrame runs one frame of a field of three particles    *)
(* from the states a regeneration can leave, for what one frame computes   *)
(* from the particles' positions: the connections and the repulsion.       *)
(***************************************************************************)
EXTENDS Integers, Sequences, FiniteSets, TLC

VARIABLES
    settings,   \* this.settings
    width,      \* this.canvas.width
    height,     \* this.canvas.height
    particles,  \* this.particles: sequence of particle records
    mouse,      \* this.mouse: [x, y, radius], x and y null or a number
    pending,    \* number of requestAnimationFrame callbacks not yet run
    listeners,  \* event types with a registered listener
    pc,         \* "constructor": between init() and animate() of the constructor; "running": after it
    canvasOps,  \* what the last frame drew on the (cleared) canvas, in order
    upd,        \* per particle, the locals of its last updateParticle call
    displaced,  \* per particle, whether a repulsion has moved it since it was created
    pointer,    \* the pointer event delivered last ("none" before the first)
    tick        \* parity of the number of frames run

vars == <<settings, width, height, particles, mouse, pending, listeners, pc,
          canvasOps, upd, displaced, pointer, tick>>

----------------------------------------------------------------------------
(* Bounds of the model *)

\* Math.random() yields n / RandDen for a numerator n of 0 .. RandDen-1.
RandDen == 4

\* Math.sqrt is kept to 1 / SqrtPrec of a grid unit.
SqrtPrec == 16

----------------------------------------------------------------------------
(* Arithmetic *)

Abs(a) == IF a < 0 THEN -a ELSE a

\* a / b (b > 0) rounded to the nearest integer, halves away from zero.
Round(a, b) ==
    IF a >= 0 THEN (2 * a + b) \div (2 * b)
              ELSE -((2 * (-a) + b) \div (2 * b))

RECURSIVE SqrtSearch(_, _, _)
SqrtSearch(n, lo, hi) ==
    IF lo >= hi THEN lo
    ELSE LET mid == (lo + hi + 1) \div 2
         IN  IF mid * mid <= n THEN SqrtSearch(n, mid, hi)
                               ELSE SqrtSearch(n, lo, mid - 1)

\* The squared distances that occur: no two points of a run are further apart
\* in x or in y than MaxSpan.
MaxSpan == 48

\* Math.sqrt(n) in units of 1/SqrtPrec, rounded down, for every n that occurs.
Sqrt ==
    [n \in 0..(2 * MaxSpan * MaxSpan) |->
        SqrtSearch(n * SqrtPrec * SqrtPrec, 0, 2 * MaxSpan * SqrtPrec)]

\* Math.sqrt(dx * dx + dy * dy) (lines 99, 124, 135).
Distance(dx, dy) == Sqrt[dx * dx + dy * dy]

\* A length of the configuration in the units of Distance.
Fine(len) == len * SqrtPrec

----------------------------------------------------------------------------
(* Configuration *)

null == <<>>
Num(n) == <<n>>
Val(v) == v[1]

\* this.settings (lines 14-22) and this.mouse.radius (line 12) of Spec.  The
\* alpha of connectionColor (0.15) and of mouseConnectionColor (0.3) are in
\* hundredths.
FieldSettings ==
    [ particleCount        |-> 1,
      particleSize         |-> [min |-> 2, max |-> 4],
      particleSpeed        |-> 4,
      connectionDistance   |-> 8,
      connectionAlpha      |-> 15,
      mouseConnectionAlpha |-> 30 ]

FieldRadius == 8

\* this.settings and this.mouse.radius of SpecFrame.
FrameSettings ==
    [ particleCount        |-> 3,
      particleSize         |-> [min |-> 2, max |-> 4],
      particleSpeed        |-> 16,
      connectionDistance   |-> 16,
      connectionAlpha      |-> 15,
      mouseConnectionAlpha |-> 30 ]

FrameRadius == 16

\* The factor 0.5 of the repulsion (lines 104-105).
Half == 4

----------------------------------------------------------------------------
(* Inputs *)

\* The six Math.random() results one particle consumes (lines 45-50), as
\* numerators over RandDen, in the order x, y, size, speedX, speedY, opacity.
RandomDraws ==
    { <<0, 0, 0, 0, 0, 0>>,
      <<3, 2, 3, 3, 2, 3>>,
      <<2, 3, 1, 2, 3, 2>> }

\* window.innerWidth, window.innerHeight
Viewports == { <<8, 4>>, <<4, 8>> }

\* e.clientX, e.clientY of a mousemove
MousePoints == { <<0, 2>>, <<8, 4>> }

----------------------------------------------------------------------------
(* createParticles (lines 39-53) *)

\* Math.random() * range, for the numerator n of Math.random()
RandomTimes(n, range) == Round(n * range, RandDen)

\* NewParticle with the speeds drawn as Math.random() * particleSpeed.
NewParticle_UncentredSpeed(w, h, r) ==
    [ x       |-> RandomTimes(r[1], w),
      y       |-> RandomTimes(r[2], h),
      size    |-> RandomTimes(r[3], settings.particleSize.max - settings.particleSize.min)
                    + settings.particleSize.min,
      speedX  |-> RandomTimes(r[4], settings.particleSpeed),
      speedY  |-> RandomTimes(r[5], settings.particleSpeed),
      opacity |-> RandomTimes(r[6], 500) + 300 ]

\* The object pushed at lines 44-51.
NewParticle(w, h, r) ==
    [ x       |-> RandomTimes(r[1], w),
      y       |-> RandomTimes(r[2], h),
      size    |-> RandomTimes(r[3], settings.particleSize.max - settings.particleSize.min)
                    + settings.particleSize.min,
      speedX  |-> Round((2 * r[4] - RandDen) * settings.particleSpeed, 2 * RandDen),
      speedY  |-> Round((2 * r[5] - RandDen) * settings.particleSpeed, 2 * RandDen),
      opacity |-> RandomTimes(r[6], 500) + 300 ]

\* this.particles = []; then particleCount pushes.
createParticles(w, h, draws) ==
    [i \in 1..settings.particleCount |-> NewParticle(w, h, draws[i])]

----------------------------------------------------------------------------
(* updateParticle (lines 82-108) *)

\* OffEdge testing the far edge only.
OffEdge_FarEdgeOnly(c, size) == c > size

\* Lines 84 and 87: the coordinate is off the canvas.
OffEdge(c, size) == c < 0 \/ c > size

\* Bounce losing speed at the edge.
Bounce_Damped(speed) == -(speed \div 2)

\* Lines 85 and 88.
Bounce(speed) == -speed

\* Line 96.
CursorPresent(m) == m.x # null /\ m.y # null

\* Line 101.
WithinRadius(distance, radius) == distance < Fine(radius)

\* Repulsion with the direction taken from the particle to the cursor.
Repulsion_Attracting(dx, dy, distance, radius) ==
    LET forceNum == Fine(radius) - distance
    IN  IF distance = 0
        THEN [x |-> -Round(forceNum * Half, Fine(radius)), y |-> 0]
        ELSE [x |-> Round(-dx * SqrtPrec * forceNum * Half, distance * Fine(radius)),
              y |-> Round(-dy * SqrtPrec * forceNum * Half, distance * Fine(radius))]

\* Lines 102-105: the displacement (cos(angle), sin(angle)) * force * 0.5, where
\* angle = atan2(dy, dx): cos(angle) is dx / distance and sin(angle) dy / distance,
\* and atan2(0, 0) is 0.
Repulsion(dx, dy, distance, radius) ==
    LET forceNum == Fine(radius) - distance      \* force = forceNum / Fine(radius)
    IN  IF distance = 0
        THEN [x |-> Round(forceNum * Half, Fine(radius)), y |-> 0]
        ELSE [x |-> Round(dx * SqrtPrec * forceNum * Half, distance * Fine(radius)),
              y |-> Round(dy * SqrtPrec * forceNum * Half, distance * Fine(radius))]

\* The particle after the call, and the call's locals.
updateParticle(particle, m, w, h) ==
    LET speedX  == IF OffEdge(particle.x, w) THEN Bounce(particle.speedX) ELSE particle.speedX
        speedY  == IF OffEdge(particle.y, h) THEN Bounce(particle.speedY) ELSE particle.speedY
        x1      == particle.x + speedX
        y1      == particle.y + speedY
        present == CursorPresent(m)
        dx      == IF present THEN x1 - Val(m.x) ELSE 0
        dy      == IF present THEN y1 - Val(m.y) ELSE 0
        distance == Distance(dx, dy)
        hit     == present /\ WithinRadius(distance, m.radius)
        push    == IF hit THEN Repulsion(dx, dy, distance, m.radius) ELSE [x |-> 0, y |-> 0]
    IN  [ particle |-> [particle EXCEPT !.speedX = speedX, !.speedY = speedY,
                                         !.x = x1 + push.x, !.y = y1 + push.y],
          locals   |-> [ x0 |-> particle.x, y0 |-> particle.y,
                         speedX0 |-> particle.speedX, speedY0 |-> particle.speedY,
                         x1 |-> x1, y1 |-> y1,
                         mouseX |-> m.x, mouseY |-> m.y,
                         present |-> present, dx |-> dx, dy |-> dy,
                         distance |-> distance, hit |-> hit,
                         pushX |-> push.x, pushY |-> push.y ] ]

----------------------------------------------------------------------------
(* Drawing (lines 55-80) *)

\* ToFixed2 cutting the digits after the second instead of rounding.
ToFixed2_Truncating(base, distance, threshold) ==
    (base * (Fine(threshold) - distance)) \div Fine(threshold)

\* (base * opacity).toFixed(2) in hundredths, opacity = 1 - distance / threshold
\* (lines 63, 67 and 73, 77): the nearest hundredth.
ToFixed2(base, distance, threshold) ==
    Round(base * (Fine(threshold) - distance), Fine(threshold))

\* drawParticle (lines 55-60)
drawParticle(particle, i) ==
    [kind |-> "arc", i |-> i, j |-> i, x |-> particle.x, y |-> particle.y,
     distance |-> 0, alpha |-> particle.opacity]

\* drawConnection (lines 62-70)
drawConnection(p1, p2, i, j, distance) ==
    [kind |-> "connection", i |-> i, j |-> j, x |-> p1.x, y |-> p1.y,
     distance |-> distance,
     alpha |-> ToFixed2(settings.connectionAlpha, distance, settings.connectionDistance)]

\* drawMouseConnection (lines 72-80)
drawMouseConnection(particle, m, i, distance) ==
    [kind |-> "mouseConnection", i |-> i, j |-> i, x |-> particle.x, y |-> particle.y,
     distance |-> distance,
     alpha |-> ToFixed2(settings.mouseConnectionAlpha, distance, m.radius)]

----------------------------------------------------------------------------
(* animate (lines 110-144) *)

\* Connected with the threshold itself included.
Connected_Inclusive(distance, threshold) == distance <= Fine(threshold)

\* Line 126.
Connected(distance, threshold) == distance < Fine(threshold)

\* Line 121: the first j of the inner loop (indices from 1).
FirstPartner(i) == i + 1

\* Lines 121-129: the inner loop from j on.
RECURSIVE PairConnections(_, _, _)
PairConnections(ps, i, j) ==
    IF j > Len(ps) THEN <<>>
    ELSE LET distance == Distance(ps[i].x - ps[j].x, ps[i].y - ps[j].y)
         IN  (IF Connected(distance, settings.connectionDistance)
                 THEN <<drawConnection(ps[i], ps[j], i, j, distance)>>
                 ELSE <<>>)
             \o PairConnections(ps, i, j + 1)

\* Lines 132-140.
MouseConnection(ps, m, i) ==
    IF CursorPresent(m)
    THEN LET distance == Distance(ps[i].x - Val(m.x), ps[i].y - Val(m.y))
         IN  IF WithinRadius(distance, m.radius)
             THEN <<drawMouseConnection(ps[i], m, i, distance)>>
             ELSE <<>>
    ELSE <<>>

\* Lines 120-141: the outer loop from i on.
RECURSIVE Connections(_, _, _)
Connections(ps, m, i) ==
    IF i > Len(ps) THEN <<>>
    ELSE PairConnections(ps, i, FirstPartner(i)) \o MouseConnection(ps, m, i)
         \o Connections(ps, m, i + 1)

\* Lines 111-141: clearRect, then update and draw every particle, then the
\* connections.  The state it leaves: the particles, what is on the canvas,
\* and the locals of the updateParticle calls.
Animated(ps, m, w, h) ==
    LET calls == [i \in 1..Len(ps) |-> updateParticle(ps[i], m, w, h)]
        moved == [i \in 1..Len(ps) |-> calls[i].particle]
    IN  [ particles |-> moved,
          canvasOps |-> [i \in 1..Len(ps) |-> drawParticle(moved[i], i)]
                          \o Connections(moved, m, 1),
          upd       |-> [i \in 1..Len(ps) |-> calls[i].locals] ]

\* animate without its last line.
Requested_Never(n) == n

\* Line 143: requestAnimationFrame(() => this.animate()).
Requested(n) == n + 1

\* Which particles a repulsion has moved since they were created.
Displaced(was, locals) ==
    [i \in 1..Len(locals) |-> was[i] \/ locals[i].pushX # 0 \/ locals[i].pushY # 0]

animate(n) ==
    LET a == Animated(particles, mouse, width, height)
    IN  /\ particles' = a.particles
        /\ canvasOps' = a.canvasOps
        /\ upd' = a.upd
        /\ displaced' = Displaced(displaced, a.upd)
        /\ pending' = Requested(n)
        /\ tick' = 1 - tick

----------------------------------------------------------------------------
(* The constructor and the handlers *)

AllEvents == {"resize", "mousemove", "mouseout"}

Fresh == [i \in 1..settings.particleCount |-> FALSE]

\* Lines 8-24: the state when init() has returned.
Init ==
    /\ settings = FieldSettings
    /\ \E v \in Viewports :
       \E draws \in [1..FieldSettings.particleCount -> RandomDraws] :
          /\ width = v[1]
          /\ height = v[2]
          /\ particles = createParticles(v[1], v[2], draws)
    /\ mouse = [x |-> null, y |-> null, radius |-> FieldRadius]
    /\ pending = 0
    /\ listeners = {}
    /\ pc = "constructor"
    /\ canvasOps = <<>>
    /\ upd = <<>>
    /\ displaced = Fresh
    /\ pointer = "none"
    /\ tick = 0

\* Lines 25-26: this.animate(); this.setupEventListeners().
Constructor ==
    /\ pc = "constructor"
    /\ animate(pending)
    /\ listeners' = AllEvents
    /\ pc' = "running"
    /\ UNCHANGED <<settings, width, height, mouse, pointer>>

\* The callback of line 143, run by the browser at a display refresh.
AnimationFrame ==
    /\ pc = "running"
    /\ pending > 0
    /\ animate(pending - 1)
    /\ UNCHANGED <<settings, width, height, mouse, listeners, pc, pointer>>

\* The resize handler pushing onto the particles it has.
Resized_Appending(w, h, draws) == particles \o createParticles(w, h, draws)

\* Lines 147-150.  Setting canvas.width clears the canvas.
Resized(w, h, draws) == createParticles(w, h, draws)

Resize ==
    /\ "resize" \in listeners
    /\ \E v \in Viewports :
       \E draws \in [1..settings.particleCount -> RandomDraws] :
          /\ width' = v[1]
          /\ height' = v[2]
          /\ particles' = Resized(v[1], v[2], draws)
    /\ canvasOps' = <<>>
    /\ upd' = <<>>
    /\ displaced' = Fresh
    /\ UNCHANGED <<settings, mouse, pending, listeners, pc, pointer, tick>>

\* Lines 152-155.
MouseMoved(m, clientX, clientY) == [m EXCEPT !.x = Num(clientX), !.y = Num(clientY)]

MouseMove ==
    /\ "mousemove" \in listeners
    /\ \E e \in MousePoints : mouse' = MouseMoved(mouse, e[1], e[2])
    /\ pointer' = "move"
    /\ UNCHANGED <<settings, width, height, particles, pending, listeners, pc,
                   canvasOps, upd, displaced, tick>>

\* The mouseout handler resetting the position to the origin.
MouseLeft_ToOrigin(m) == [m EXCEPT !.x = Num(0), !.y = Num(0)]

\* Lines 157-160.
MouseLeft(m) == [m EXCEPT !.x = null, !.y = null]

MouseOut ==
    /\ "mouseout" \in listeners
    /\ mouse' = MouseLeft(mouse)
    /\ pointer' = "leave"
    /\ UNCHANGED <<settings, width, height, particles, pending, listeners, pc,
                   canvasOps, upd, displaced, tick>>

Next == Constructor \/ AnimationFrame \/ Resize \/ MouseMove \/ MouseOut

Spec == Init /\ [][Next]_vars

\* The constructor runs to its end, and the browser runs a pending frame
\* callback at some display refresh.  Under Next the steps that leave the
\* constructor are the Constructor steps and the steps of a running animation
\* that change tick are the AnimationFrame steps, so this is weak fairness of
\* those two actions.
ConstructorEnds == pc = "constructor" /\ pc' = "running"
FrameRuns == pc = "running" /\ pending > 0 /\ tick' = 1 - tick

SpecLive == Spec /\ WF_pc(ConstructorEnds) /\ WF_tick(FrameRuns)

----------------------------------------------------------------------------
(* One frame of a field of three particles *)

\* Where a regeneration can have put a particle, and with which speeds:
\* [x, y, speedX, speedY].
FramePlacements ==
    { <<0, 0, 0, 0>>, <<16, 0, 0, 0>>, <<8, 0, 0, 0>>, <<4, 15, 0, 0>>,
      <<12, 10, 0, 0>>, <<8, 8, -8, -8>>, <<24, 16, 8, 0>> }

Placed(t) ==
    [ x |-> t[1], y |-> t[2], size |-> 3, speedX |-> t[3], speedY |-> t[4],
      opacity |-> 500 ]

\* The cursor state: absent, or one of these positions.
FrameMousePoints == { <<16, 0>>, <<24, 8>>, <<0, 32>> }

FrameMice ==
    { [x |-> null, y |-> null, radius |-> FrameRadius] }
    \cup { [x |-> Num(e[1]), y |-> Num(e[2]), radius |-> FrameRadius] : e \in FrameMousePoints }

\* A running animation right after a resize to 32 x 32 (lines 147-150), the
\* particles where Math.random() has put them.
InitFrame ==
    /\ settings = FrameSettings
    /\ width = 32
    /\ height = 32
    /\ \E places \in [1..FrameSettings.particleCount -> FramePlacements] :
          particles = [i \in 1..FrameSettings.particleCount |-> Placed(places[i])]
    /\ mouse \in FrameMice
    /\ pending = 1
    /\ listeners = AllEvents
    /\ pc = "running"
    /\ canvasOps = <<>>
    /\ upd = <<>>
    /\ displaced = [i \in 1..FrameSettings.particleCount |-> FALSE]
    /\ pointer = IF mouse.x = null THEN "none" ELSE "move"
    /\ tick = 0

\* The first frame on the new particles.
FirstFrame == upd = <<>> /\ AnimationFrame

SpecFrame == InitFrame /\ [][FirstFrame]_vars

----------------------------------------------------------------------------
(* Vocabulary of the properties *)

\* A frame has run since the particles were created: the particles, canvasOps
\* and upd are as the last frame left them (no other handler touches them
\* but resize, which empties upd).
FrameRan == upd # <<>>

InBounds(x, y) == 0 <= x /\ x <= width /\ 0 <= y /\ y <= height

\* The step is a frame.
IsFrameStep == tick' # tick

\* The step is a pointer handler's.
IsPointerStep == mouse' # mouse \/ pointer' # pointer

MouseConnectionsDrawn ==
    { k \in DOMAIN canvasOps : canvasOps[k].kind = "mouseConnection" }

----------------------------------------------------------------------------
(* C1: the particle set always holds exactly settings.particleCount
   particles: after init(), after every frame and pointer event, and after
   every resize, the first as well as a repeated one. *)
C1_ParticleCount == Len(particles) = settings.particleCount

\* A resize has regenerated the set of a running animation after an odd
\* number of frames.
C1_Witness ==
    /\ pc = "running"
    /\ upd = <<>>
    /\ tick = 1
    /\ Len(particles) = settings.particleCount

(* C7: right after init() and right after every resize (no frame has run on
   the new set), every particle lies on the canvas as it is now sized, its
   size lies in [particleSize.min, particleSize.max], each speed component in
   [-particleSpeed/2, particleSpeed/2] and its opacity in [0.3, 0.8]. *)
C7_FreshInRange ==
    ~FrameRan =>
        \A i \in DOMAIN particles :
            LET p == particles[i]
            IN  /\ InBounds(p.x, p.y)
                /\ settings.particleSize.min <= p.size
                /\ p.size <= settings.particleSize.max
                /\ -settings.particleSpeed <= 2 * p.speedX
                /\ 2 * p.speedX <= settings.particleSpeed
                /\ -settings.particleSpeed <= 2 * p.speedY
                /\ 2 * p.speedY <= settings.particleSpeed
                /\ 300 <= p.opacity /\ p.opacity <= 800

\* After a frame, a resize to the narrow viewport has placed a particle off
\* the origin, moving right, larger than the minimum.
C7_Witness ==
    /\ pc = "running"
    /\ ~FrameRan
    /\ tick = 1
    /\ width < height
    /\ \E i \in DOMAIN particles :
          /\ particles[i].x > 0
          /\ particles[i].speedX > 0
          /\ particles[i].size > settings.particleSize.min


(* C3: a frame that runs while the cursor state is absent displaces no
   particle and draws no cursor connection; and every frame that runs after a
   mouseout with no mousemove since, the very next one included, is such a
   frame, whatever the cursor position was before. *)
C3_NothingWithoutCursor ==
    /\ [](\A i \in DOMAIN upd :
            (upd[i].mouseX = null /\ upd[i].mouseY = null) =>
                /\ upd[i].pushX = 0 /\ upd[i].pushY = 0
                /\ particles[i].x = upd[i].x1 /\ particles[i].y = upd[i].y1
                /\ MouseConnectionsDrawn = {})
    /\ [][(pointer = "leave" /\ IsFrameStep) =>
            /\ MouseConnectionsDrawn' = {}
            /\ \A i \in DOMAIN upd' :
                  /\ upd'[i].pushX = 0 /\ upd'[i].pushY = 0
                  /\ particles'[i].x = upd'[i].x1 /\ particles'[i].y = upd'[i].y1]_vars

\* The cursor has pushed a particle, has then left the window, and a later
\* frame has run with the cursor state absent.
C3_Witness ==
    /\ pointer = "leave"
    /\ FrameRan
    /\ \E i \in DOMAIN upd :
          /\ displaced[i]
          /\ upd[i].mouseX = null /\ upd[i].mouseY = null
          /\ upd[i].pushX = 0 /\ upd[i].pushY = 0

\* Off the canvas on this axis and moving back towards it.
Inward(c, speed, size) == (c < 0 /\ speed > 0) \/ (c > size /\ speed < 0)

(* C4: after a frame, a particle that entered it off the canvas in x has its
   speedX flipped, except that one already moving back inward keeps its inward
   speedX (the reflection is idempotent); the same for y and speedY. *)
C4_IdempotentReflection ==
    \A i \in DOMAIN upd :
        /\ OffEdge(upd[i].x0, width) =>
              particles[i].speedX =
                  IF Inward(upd[i].x0, upd[i].speedX0, width)
                  THEN upd[i].speedX0 ELSE -upd[i].speedX0
        /\ OffEdge(upd[i].y0, height) =>
              particles[i].speedY =
                  IF Inward(upd[i].y0, upd[i].speedY0, height)
                  THEN upd[i].speedY0 ELSE -upd[i].speedY0

(* C5, as claimed: a particle that is off the canvas at the end of one frame
   is back on it at the end of the next, with the cursor present or absent. *)
C5_OutsideAtMostOneFrame ==
    \A i \in DOMAIN upd :
        ~InBounds(upd[i].x0, upd[i].y0) => InBounds(particles[i].x, particles[i].y)

(* C5, amended: a particle that no cursor repulsion has displaced since it
   was created, and that is off the canvas at the end of one frame, is back on
   it at the end of the next. *)
C5_UndisplacedOutsideOneFrame ==
    \A i \in DOMAIN upd :
        (~InBounds(upd[i].x0, upd[i].y0) /\ ~displaced[i]) =>
            InBounds(particles[i].x, particles[i].y)

\* With the cursor present but out of reach, a particle that had left the
\* canvas has come back in one frame.
C5_Witness ==
    \E i \in DOMAIN upd :
        /\ ~InBounds(upd[i].x0, upd[i].y0)
        /\ ~displaced[i]
        /\ upd[i].present
        /\ InBounds(particles[i].x, particles[i].y)

(* C6: a frame and the pointer handlers leave every particle's size and
   opacity and the magnitudes of its speedX and speedY as they are; the pointer
   handlers leave the particles alone altogether.  (A resize step changes
   neither tick nor the cursor state.) *)
C6_AttributesKept ==
    [][ /\ IsPointerStep => particles' = particles
        /\ IsFrameStep =>
              /\ DOMAIN particles' = DOMAIN particles
              /\ \A i \in DOMAIN particles :
                    /\ particles'[i].size = particles[i].size
                    /\ particles'[i].opacity = particles[i].opacity
                    /\ Abs(particles'[i].speedX) = Abs(particles[i].speedX)
                    /\ Abs(particles'[i].speedY) = Abs(particles[i].speedY) ]_vars

\* A frame has bounced a particle (its speedX flipped) that the cursor has displaced.
C6_Witness ==
    \E i \in DOMAIN upd :
        /\ displaced[i]
        /\ upd[i].speedX0 # 0
        /\ particles[i].speedX = -upd[i].speedX0
        /\ (upd[i].pushX # 0 \/ upd[i].pushY # 0)

(* C10: from the end of the constructor on exactly one frame callback is
   pending between frames (none before): a frame consumes it and requests one,
   and no other handler requests or cancels one; and when the browser keeps
   delivering refreshes, frames run for ever under every interleaving. *)
C10_OneChainForever ==
    /\ [](pc = "constructor" => pending = 0)
    /\ [](pc = "running" => pending = 1)
    /\ [][~IsFrameStep => pending' = pending]_vars
    /\ []<>(tick = 0)
    /\ []<>(tick = 1)

\* Frames have run after a resize and pointer events, and one more is pending.
C10_Witness ==
    /\ pc = "running"
    /\ pending = 1
    /\ tick = 0
    /\ FrameRan
    /\ pointer = "leave"
    /\ width < height

----------------------------------------------------------------------------
(* Properties of one frame (SpecFrame) *)

ConnectionsDrawn == { k \in DOMAIN canvasOps : canvasOps[k].kind = "connection" }

\* The squared distance of particles i and j as they are now.
Distance2(i, j) ==
    (particles[i].x - particles[j].x) * (particles[i].x - particles[j].x)
    + (particles[i].y - particles[j].y) * (particles[i].y - particles[j].y)

Threshold2 == settings.connectionDistance * settings.connectionDistance

(* C2: a frame draws, for every pair i < j of particles, exactly one
   connection if their distance, as the particles stand when all of them have
   been updated, is strictly below connectionDistance, and none otherwise, the
   threshold itself included; it draws no connection of another pair. *)
C2_ConnectionIffWithinDistance ==
    FrameRan =>
        /\ \A k \in ConnectionsDrawn :
              /\ canvasOps[k].i \in DOMAIN particles
              /\ canvasOps[k].j \in DOMAIN particles
              /\ canvasOps[k].i < canvasOps[k].j
        /\ \A i \in DOMAIN particles, j \in DOMAIN particles :
              i < j =>
                  Cardinality({ k \in ConnectionsDrawn :
                                  canvasOps[k].i = i /\ canvasOps[k].j = j })
                      = IF Distance2(i, j) < Threshold2 THEN 1 ELSE 0

\* A frame has moved a particle, and has left one pair exactly at the
\* threshold (not connected), one below it (connected) and one above it.
C2_Witness ==
    /\ FrameRan
    /\ \E i \in DOMAIN upd : particles[i].x # upd[i].x0
    /\ \E i \in DOMAIN particles, j \in DOMAIN particles :
          i < j /\ Distance2(i, j) = Threshold2
    /\ \E i \in DOMAIN particles, j \in DOMAIN particles :
          i < j /\ Distance2(i, j) > Threshold2
    /\ \E k \in ConnectionsDrawn :
          Distance2(canvasOps[k].i, canvasOps[k].j) < Threshold2

(* C8, as claimed: the alpha of a drawn connection is 0.15 * (1 - distance /
   connectionDistance), it is above 0, and of two drawn connections the
   shorter has the strictly greater alpha. *)
C8_ExactOpacity ==
    /\ \A k \in ConnectionsDrawn :
          /\ canvasOps[k].alpha * Fine(settings.connectionDistance)
                = settings.connectionAlpha
                    * (Fine(settings.connectionDistance) - canvasOps[k].distance)
          /\ canvasOps[k].alpha > 0
    /\ \A k1 \in ConnectionsDrawn, k2 \in ConnectionsDrawn :
          canvasOps[k1].distance < canvasOps[k2].distance =>
              canvasOps[k1].alpha > canvasOps[k2].alpha

(* C8, amended: the alpha of a drawn connection is 0.15 * (1 - distance /
   connectionDistance) rounded to the nearest hundredth (toFixed(2)), for the
   distance of the two particles; it lies between 0 and 0.15, and of two drawn
   connections the shorter has an alpha at least as great. *)
C8_RoundedOpacity ==
    /\ \A k \in ConnectionsDrawn :
          LET op == canvasOps[k]
              pi == particles[op.i]
              pj == particles[op.j]
              exactNum == settings.connectionAlpha
                            * (Fine(settings.connectionDistance) - op.distance)
          IN  /\ op.distance = Distance(pi.x - pj.x, pi.y - pj.y)
              /\ 2 * Abs(op.alpha * Fine(settings.connectionDistance) - exactNum)
                    <= Fine(settings.connectionDistance)
              /\ 0 <= op.alpha /\ op.alpha <= settings.connectionAlpha
    /\ \A k1 \in ConnectionsDrawn, k2 \in ConnectionsDrawn :
          canvasOps[k1].distance < canvasOps[k2].distance =>
              canvasOps[k1].alpha >= canvasOps[k2].alpha

\* A frame has drawn two connections of different lengths with the same alpha,
\* 0.00, and a third with an alpha above 0.
C8_Witness ==
    /\ FrameRan
    /\ \E k1 \in ConnectionsDrawn, k2 \in ConnectionsDrawn :
          /\ canvasOps[k1].distance < canvasOps[k2].distance
          /\ canvasOps[k1].alpha = 0 /\ canvasOps[k2].alpha = 0
    /\ \E k \in ConnectionsDrawn : canvasOps[k].alpha > 0

(* C9: in a frame with the cursor present, a particle whose distance d to the
   cursor, once advanced by its velocity, is below the radius is displaced by
   0.5 * (radius - d) / radius along the direction from the cursor to the
   particle (to the nearest grid unit), which takes it strictly further from
   the cursor, also when it sits on the cursor (d = 0); a particle with
   d >= radius is not displaced. *)
C9_PushedAway ==
    \A i \in DOMAIN upd :
        LET u  == upd[i]
            r  == mouse.radius
            dx == u.x1 - Val(u.mouseX)
            dy == u.y1 - Val(u.mouseY)
            d2 == dx * dx + dy * dy
            d  == Sqrt[d2]
            nx == particles[i].x - u.x1
            ny == particles[i].y - u.y1
        IN  (u.mouseX # null /\ u.mouseY # null) =>
                IF d2 >= r * r
                THEN nx = 0 /\ ny = 0
                ELSE /\ (dx + nx) * (dx + nx) + (dy + ny) * (dy + ny) > d2
                     /\ nx * dx >= 0 /\ ny * dy >= 0
                     /\ d2 = 0 => nx * nx + ny * ny = Half * Half
                     /\ d2 > 0 =>
                           /\ 2 * Abs(nx * Fine(r) * d - Half * (Fine(r) - d) * dx * SqrtPrec)
                                 <= Fine(r) * d
                           /\ 2 * Abs(ny * Fine(r) * d - Half * (Fine(r) - d) * dy * SqrtPrec)
                                 <= Fine(r) * d

\* One frame has pushed a particle that sat on the cursor and one beside it,
\* and has left alone one exactly a radius away.
C9_Witness ==
    /\ FrameRan
    /\ mouse.x # null
    /\ \E i \in DOMAIN upd :
          /\ upd[i].x1 = Val(mouse.x) /\ upd[i].y1 = Val(mouse.y)
          /\ particles[i].x # upd[i].x1
    /\ \E i \in DOMAIN upd :
          /\ upd[i].dx * upd[i].dx + upd[i].dy * upd[i].dy = mouse.radius * mouse.radius
          /\ particles[i].x = upd[i].x1 /\ particles[i].y = upd[i].y1
    /\ \E i \in DOMAIN upd :
          /\ upd[i].dx < 0 /\ upd[i].dy = 0
          /\ particles[i].x < upd[i].x1 /\ particles[i].y = upd[i].y1

====
